---- MODULE Spec2Model ----
(***************************************************************************)
(* Timed++ : scoped timers, the repeated-run harness, automatic unit       *)
(* selection and the placeholder formatter.                                *)
(*                                                                         *)
(* Sources: src/timer.hpp (Timer, AverageTimer, BlockTimer, 0.2.0) and     *)
(* src/unnamed/part_001 (FunctionTimer, AverageFunctionTimer, BlockTimer,  *)
(* 0.3.0).                                                                 *)
(*                                                                         *)
(* Representation.  A std::string is a sequence of one-character strings.  *)
(* An int64_t nanosecond count is a sign and a magnitude; the magnitude is *)
(* a little-endian sequence of base-1000 limbs without leading zero limbs  *)
(* (TLC's own integers are 32 bits wide and cannot hold 3.6 * 10^12).      *)
(***************************************************************************)
EXTENDS Integers, Sequences, FiniteSets, TLC

(***************************************************************************)
(* Magnitudes: naturals in base 1000, least significant limb first.        *)
(***************************************************************************)
RECURSIVE MagOfNat(_)
MagOfNat(n) == IF n = 0 THEN << >> ELSE <<n % 1000>> \o MagOfNat(n \div 1000)

RECURSIVE MagNorm(_)
MagNorm(m) ==
    IF m = << >> THEN << >>
    ELSE IF m[Len(m)] = 0 THEN MagNorm(SubSeq(m, 1, Len(m) - 1))
    ELSE m

RECURSIVE MagCmpAt(_, _, _)
MagCmpAt(a, b, i) ==
    IF i = 0 THEN 0
    ELSE IF a[i] < b[i] THEN -1
    ELSE IF a[i] > b[i] THEN 1
    ELSE MagCmpAt(a, b, i - 1)

MagCmp(a, b) ==
    IF Len(a) < Len(b) THEN -1
    ELSE IF Len(a) > Len(b) THEN 1
    ELSE MagCmpAt(a, b, Len(a))

LimbTail(m) == IF m = << >> THEN << >> ELSE Tail(m)

LimbHead(m) == IF m = << >> THEN 0 ELSE Head(m)

RECURSIVE MagAddC(_, _, _)
MagAddC(a, b, c) ==
    IF a = << >> /\ b = << >>
    THEN (IF c = 0 THEN << >> ELSE <<c>>)
    ELSE LET x == LimbHead(a) + LimbHead(b) + c
         IN  <<x % 1000>> \o MagAddC(LimbTail(a), LimbTail(b), x \div 1000)

MagAdd(a, b) == MagAddC(a, b, 0)

RECURSIVE MagSubB(_, _, _)
MagSubB(a, b, c) ==
    IF a = << >> THEN << >>
    ELSE LET x == LimbHead(a) - LimbHead(b) - c
         IN  IF x < 0
             THEN <<x + 1000>> \o MagSubB(LimbTail(a), LimbTail(b), 1)
             ELSE <<x>> \o MagSubB(LimbTail(a), LimbTail(b), 0)

\* a - b for a >= b
MagSub(a, b) == MagNorm(MagSubB(a, b, 0))

RECURSIVE MagMulC(_, _, _)
MagMulC(a, k, c) ==
    IF a = << >> THEN MagOfNat(c)
    ELSE LET x == Head(a) * k + c
         IN  <<x % 1000>> \o MagMulC(Tail(a), k, x \div 1000)

\* a * k for a small k
MagMulSmall(a, k) == MagNorm(MagMulC(a, k, 0))

\* a * 1000^k
MagShl(a, k) == IF a = << >> THEN << >> ELSE [i \in 1..k |-> 0] \o a

\* a \div 1000^k
MagShr(a, k) == IF Len(a) <= k THEN << >> ELSE SubSeq(a, k + 1, Len(a))

\* a % 1000^k
MagLow(a, k) == MagNorm(IF Len(a) <= k THEN a ELSE SubSeq(a, 1, k))

\* long division by a small d, from the most significant limb down:
\* the pair <<quotient limbs, remainder>>
RECURSIVE MagDivAt(_, _, _, _)
MagDivAt(a, d, i, r) ==
    IF i = 0 THEN <<<< >>, r>>
    ELSE LET x    == r * 1000 + a[i]
             rest == MagDivAt(a, d, i - 1, x % d)
         IN  <<rest[1] \o <<x \div d>>, rest[2]>>

MagDivSmall(a, d) == MagNorm(MagDivAt(a, d, Len(a), 0)[1])

MagModSmall(a, d) == MagDivAt(a, d, Len(a), 0)[2]

(***************************************************************************)
(* int64_t values.                                                         *)
(***************************************************************************)
Big(neg, mag) == [neg |-> neg /\ mag # << >>, mag |-> mag]

BigOfNat(n) == Big(FALSE, MagOfNat(n))

BigNeg(a) == Big(~a.neg, a.mag)

\* a < b
BigLt(a, b) ==
    IF a.neg # b.neg THEN a.neg
    ELSE IF a.neg THEN MagCmp(a.mag, b.mag) = 1
    ELSE MagCmp(a.mag, b.mag) = -1

BigLe(a, b) == ~BigLt(b, a)

\* a + b
BigAdd(a, b) ==
    IF a.neg = b.neg THEN Big(a.neg, MagAdd(a.mag, b.mag))
    ELSE IF MagCmp(a.mag, b.mag) >= 0 THEN Big(a.neg, MagSub(a.mag, b.mag))
    ELSE Big(b.neg, MagSub(b.mag, a.mag))

\* a - b
BigSub(a, b) == BigAdd(a, BigNeg(b))

\* a * k, k a small natural
BigMulSmall(a, k) == Big(a.neg, MagMulSmall(a.mag, k))

\* a / d for a small d > 0, truncated towards zero (signed division)
BigDivSmall(a, d) == Big(a.neg, MagDivSmall(a.mag, d))

INT64_MAX == Big(FALSE, <<807, 775, 854, 36, 372, 223, 9>>)

INT64_MIN == Big(TRUE, <<808, 775, 854, 36, 372, 223, 9>>)

\* 2^64
TwoTo64 == <<616, 551, 709, 73, 744, 446, 18>>

\* the conversion of a long long to unsigned long: the value modulo 2^64
to_unsigned(a) == IF a.neg THEN Big(FALSE, MagSub(TwoTo64, a.mag)) ELSE a

\* the conversion of an unsigned long to int64_t
to_signed(u) == IF BigLt(INT64_MAX, u) THEN Big(TRUE, MagSub(TwoTo64, u.mag)) ELSE u


(***************************************************************************)
(* Strings.                                                                *)
(***************************************************************************)
DigitChar(d) == <<"0", "1", "2", "3", "4", "5", "6", "7", "8", "9">>[d + 1]

Pad3(n) == <<DigitChar(n \div 100), DigitChar((n \div 10) % 10), DigitChar(n % 10)>>

RECURSIVE NatDigits(_)
NatDigits(n) == IF n < 10 THEN <<DigitChar(n)>> ELSE NatDigits(n \div 10) \o <<DigitChar(n % 10)>>

RECURSIVE LimbDigits(_, _)
LimbDigits(m, i) == IF i = 0 THEN << >> ELSE Pad3(m[i]) \o LimbDigits(m, i - 1)

MagDigits(m) ==
    IF m = << >> THEN <<"0">>
    ELSE NatDigits(m[Len(m)]) \o LimbDigits(m, Len(m) - 1)

\* std::to_string(long): "%ld"
to_string(a) == (IF a.neg THEN <<"-">> ELSE << >>) \o MagDigits(a.mag)

\* std::to_string(double) of the quotient a / (d * 1000^k): "%f", six digits
\* after the point.  The seventh digit is rounded on the exact quotient, ties
\* to even; the representation error of the IEEE-754 quotient is not
\* modelled.
to_string_quotient(a, d, k) ==
    LET scaled == MagShl(a.mag, 2)
        hi     == MagShr(scaled, k)
        q      == MagDivSmall(hi, d)
        rem    == MagAdd(MagShl(MagOfNat(MagModSmall(hi, d)), k), MagLow(scaled, k))
        half   == MagCmp(MagMulSmall(rem, 2), MagShl(MagOfNat(d), k))
        up     == half = 1 \/ (half = 0 /\ LimbHead(q) % 2 = 1)
        r      == IF up THEN MagAdd(q, <<1>>) ELSE q
        frac   == MagLow(r, 2)
    IN  (IF a.neg THEN <<"-">> ELSE << >>)
        \o MagDigits(MagShr(r, 2))
        \o <<".">>
        \o Pad3(IF Len(frac) >= 2 THEN frac[2] ELSE 0)
        \o Pad3(LimbHead(frac))

(***************************************************************************)
(* The DurationUnit registry.                                              *)
(***************************************************************************)
ns_in_us == BigOfNat(1000)

ns_in_ms == BigMulSmall(ns_in_us, 1000)

ns_in_s == BigMulSmall(ns_in_ms, 1000)

ns_in_min == BigMulSmall(ns_in_s, 60)

ns_in_hr == BigMulSmall(ns_in_min, 60)

\* automatic_duration_to_string with the first threshold upper-inclusive
automatic_duration_to_string_le(elapsed) ==
    IF BigLe(elapsed, ns_in_us) THEN to_string(elapsed) \o <<" ", "n", "s">>
    ELSE IF BigLt(elapsed, ns_in_ms) THEN to_string_quotient(elapsed, 1, 1) \o <<" ", "u", "s">>
    ELSE IF BigLt(elapsed, ns_in_s) THEN to_string_quotient(elapsed, 1, 2) \o <<" ", "m", "s">>
    ELSE IF BigLt(elapsed, ns_in_min) THEN to_string_quotient(elapsed, 1, 3) \o <<" ", "s">>
    ELSE IF BigLt(elapsed, ns_in_hr) THEN to_string_quotient(elapsed, 60, 3) \o <<" ", "m">>
    ELSE to_string_quotient(elapsed, 3600, 3) \o <<" ", "h">>

automatic_duration_to_string(elapsed) ==
    IF BigLt(elapsed, ns_in_us) THEN to_string(elapsed) \o <<" ", "n", "s">>
    ELSE IF BigLt(elapsed, ns_in_ms) THEN to_string_quotient(elapsed, 1, 1) \o <<" ", "u", "s">>
    ELSE IF BigLt(elapsed, ns_in_s) THEN to_string_quotient(elapsed, 1, 2) \o <<" ", "m", "s">>
    ELSE IF BigLt(elapsed, ns_in_min) THEN to_string_quotient(elapsed, 1, 3) \o <<" ", "s">>
    ELSE IF BigLt(elapsed, ns_in_hr) THEN to_string_quotient(elapsed, 60, 3) \o <<" ", "m">>
    ELSE to_string_quotient(elapsed, 3600, 3) \o <<" ", "h">>

\* the template argument `duration`
FixedDurations == {"nanoseconds", "microseconds", "milliseconds", "seconds", "minutes", "hours"}

DurationKinds == {"automatic_duration"} \cup FixedDurations

duration_suffix(duration) ==
    IF duration = "nanoseconds" THEN <<"n", "s">>
    ELSE IF duration = "microseconds" THEN <<"u", "s">>
    ELSE IF duration = "milliseconds" THEN <<"m", "s">>
    ELSE IF duration = "seconds" THEN <<"s">>
    ELSE IF duration = "minutes" THEN <<"m">>
    ELSE IF duration = "hours" THEN <<"h">>
    ELSE <<"u", "n", "k", "n", "o", "w", "n">>

\* std::chrono::duration_cast<duration>(d).count() of a nanosecond count d:
\* the quotient by the period, truncated towards zero
duration_cast(duration, d) ==
    IF duration = "nanoseconds" THEN d
    ELSE IF duration = "microseconds" THEN Big(d.neg, MagShr(d.mag, 1))
    ELSE IF duration = "milliseconds" THEN Big(d.neg, MagShr(d.mag, 2))
    ELSE IF duration = "seconds" THEN Big(d.neg, MagShr(d.mag, 3))
    ELSE IF duration = "minutes" THEN Big(d.neg, MagDivSmall(MagShr(d.mag, 3), 60))
    ELSE Big(d.neg, MagDivSmall(MagShr(d.mag, 3), 3600))


(***************************************************************************)
(* The OutputFormatter.  Positions are 0-based, as in std::string.         *)
(***************************************************************************)
npos == -1

\* std::string::find(what, pos)
RECURSIVE find(_, _, _)
find(out, what, pos) ==
    IF pos + Len(what) > Len(out) THEN npos
    ELSE IF what = << >> THEN pos
    ELSE IF out[pos + 1] = what[1] /\ SubSeq(out, pos + 1, pos + Len(what)) = what THEN pos
    ELSE find(out, what, pos + 1)

\* std::string::replace(pos, len, with)
string_replace(out, pos, len, with) ==
    SubSeq(out, 1, pos) \o with \o SubSeq(out, pos + len + 1, Len(out))

\* the lambda `replace` without its loop: the first occurrence only
replace_from_once(out, what, with, pos) ==
    LET p == find(out, what, pos)
    IN  IF p = npos THEN out ELSE string_replace(out, p, Len(what), with)

\* the loop of the lambda `replace`, entered with the scan position pos
RECURSIVE replace_from(_, _, _, _)
replace_from(out, what, with, pos) ==
    LET p == find(out, what, pos)
    IN  IF p = npos THEN out
        ELSE replace_from(string_replace(out, p, Len(what), with), what, with, p + Len(with))

replace(out, what, with) == replace_from(out, what, with, 0)

P_filename == <<"{", "f", "i", "l", "e", "n", "a", "m", "e", "}">>

P_row == <<"{", "r", "o", "w", "}">>

P_name == <<"{", "n", "a", "m", "e", "}">>

P_function == <<"{", "f", "u", "n", "c", "t", "i", "o", "n", "}">>

P_result == <<"{", "r", "e", "s", "u", "l", "t", "}">>

get_name(settings) == settings.name

get_format(settings) == settings.format

get_filename(settings) == settings.location.file_name

get_line(settings) == settings.location.line

get_function_name(settings) == settings.location.function_name

\* the five calls of `replace`, in the order format_output makes them
replace_calls(result, settings) ==
    << <<P_filename, get_filename(settings)>>,
       <<P_row, to_string(BigOfNat(get_line(settings)))>>,
       <<P_name, get_name(settings)>>,
       <<P_function, get_function_name(settings)>>,
       <<P_result, result>> >>

\* `out` after the first k calls
RECURSIVE format_pass(_, _, _)
format_pass(result, settings, k) ==
    IF k = 0 THEN settings.format
    ELSE LET call == replace_calls(result, settings)[k]
         IN  replace(format_pass(result, settings, k - 1), call[1], call[2])

format_output(result, settings) == format_pass(result, settings, 5)

\* the character ` (a TLA+ string cannot hold it)
Backquote == "bq"

\* BaseTimerSettings::format, the default template
DefaultFormat == <<"[", "{", "f", "i", "l", "e", "n", "a", "m", "e", "}", ":", "{", "r", "o", "w", "}", " ", "i", "n", " ", Backquote, "{", "f", "u", "n", "c", "t", "i", "o", "n", "}", Backquote, " ", "-", "-", " ", "{", "n", "a", "m", "e", "}", "]", " ", "-", ">", " ", "{", "r", "e", "s", "u", "l", "t", "}">>


(***************************************************************************)
(* State.                                                                  *)
(***************************************************************************)
VARIABLES
    uElapsed,     \* automatic_duration_to_string: the argument
    uOut,         \* ... and the string returned
    uPc,
    fSettings,    \* format_output: the settings
    fResult,      \* ... the result string
    fOut,         \* ... and the string returned
    fPc,
    clock,        \* what clock::now() returns
    sink,         \* the characters written to each std::ostream
    log,          \* what has happened, in order
    duration,     \* the template argument `duration`
    steady,       \* the template argument `clock`: whether it never steps back
    arg,          \* the Settings a caller passes to a timer's constructor
    tPc,          \* FunctionTimer / Timer: where its life stands
    tSettings,    \* BaseTimer::settings
    m_start,      \* BaseTimer::m_start
    m_end,        \* BaseTimer::m_end
    fresult,      \* FunctionTimer::fresult
    got,          \* what the caller's calls of get_elapsed() returned, in order
    res,          \* the outcome of the caller's last request for a result
    args,         \* the constructor's parameter `args`: what it holds and how it was passed
    hPc,          \* AverageFunctionTimer / AverageTimer: where its life stands
    hSettings,    \* AverageFunctionTimer::settings
    N,            \* the template argument N
    i,            \* the loop index of the constructor
    timers,       \* AverageFunctionTimer::timers, the entries assigned so far
    fresults,     \* AverageFunctionTimer::fresults, the entries assigned so far
    max_time,
    min_time,
    median_time,
    total_time

unitVars == <<uElapsed, uOut, uPc>>

formatVars == <<fSettings, fResult, fOut, fPc>>

envVars == <<clock, sink, log, duration, steady>>

timerVars == <<arg, tPc, tSettings, m_start, m_end, fresult, got>>

accessVars == <<res>>

callVars == <<args>>

harnessVars == <<hPc, hSettings, N, i, timers, fresults, max_time, min_time, median_time, total_time>>

vars == <<unitVars, formatVars, envVars, timerVars, accessVars, callVars, harnessVars>>

Streams == {"cout", "log"}

\* a default-constructed time_point: the clock's epoch
Epoch == BigOfNat(0)

UnitIdle == uElapsed = BigOfNat(0) /\ uOut = << >> /\ uPc = "idle"

FormatIdle == fSettings = << >> /\ fResult = << >> /\ fOut = << >> /\ fPc = "idle"

EnvIdle ==
    /\ clock = Epoch
    /\ sink = [s \in Streams |-> << >>]
    /\ log = << >>
    /\ duration = "automatic_duration"
    /\ steady = TRUE
    /\ args = << >>

\* no timer object exists
TimerNone ==
    /\ tPc = "none"
    /\ tSettings = << >>
    /\ m_start = Epoch
    /\ m_end = Epoch
    /\ fresult = << >>
    /\ got = << >>
    /\ res = << >>

TimerIdle == arg = << >> /\ TimerNone

HarnessIdle ==
    /\ hPc = "idle"
    /\ hSettings = << >>
    /\ N = 0
    /\ i = 0
    /\ timers = << >>
    /\ fresults = << >>
    /\ max_time = INT64_MIN
    /\ min_time = INT64_MAX
    /\ median_time = BigOfNat(0)
    /\ total_time = BigOfNat(0)

(***************************************************************************)
(* automatic_duration_to_string applied to elapsed counts at, next to and  *)
(* far from every threshold, of both signs, and at the ends of int64_t.    *)
(***************************************************************************)
MaxDelta == 2

UnitAnchors ==
    { BigOfNat(0), BigOfNat(1000), BigOfNat(1000000), BigOfNat(1000000000),
      Big(FALSE, <<0, 0, 0, 60>>), Big(FALSE, <<0, 0, 0, 600, 3>>),
      Big(FALSE, <<500, 1>>), Big(FALSE, <<0, 500, 2>>), Big(FALSE, <<0, 0, 500, 59>>),
      Big(FALSE, <<0, 0, 0, 90>>), Big(FALSE, <<0, 0, 0, 0, 9>>) }

UnitInputs ==
    { BigAdd(a, BigOfNat(d)) : a \in UnitAnchors, d \in 0..MaxDelta }
    \cup { BigSub(a, BigOfNat(d)) : a \in UnitAnchors, d \in 0..MaxDelta }
    \cup { BigNeg(BigAdd(a, BigOfNat(d))) : a \in UnitAnchors, d \in 0..MaxDelta }
    \cup { BigSub(INT64_MAX, BigOfNat(d)) : d \in 0..MaxDelta }
    \cup { BigAdd(INT64_MIN, BigOfNat(d)) : d \in 0..MaxDelta }

UnitInit ==
    /\ uElapsed \in UnitInputs
    /\ uOut = << >>
    /\ uPc = "ready"
    /\ FormatIdle /\ EnvIdle /\ TimerIdle /\ HarnessIdle

Render ==
    /\ uPc = "ready"
    /\ uOut' = automatic_duration_to_string(uElapsed)
    /\ uPc' = "done"
    /\ UNCHANGED <<uElapsed, formatVars, callVars, accessVars, envVars, timerVars, harnessVars>>

UnitNext == Render

SpecUnit == UnitInit /\ [][UnitNext]_vars

(***************************************************************************)
(* format_output applied to templates built from a few pieces and to       *)
(* values that are plain, empty, or hold placeholder text themselves.      *)
(***************************************************************************)
MaxPieces == 3

Pieces ==
    { P_filename, P_row, P_name, P_function, P_result,
      <<"{", "b", "o", "g", "u", "s", "}">>, <<"{">>, <<"x", " ">> }

RECURSIVE TemplatesOf(_)
TemplatesOf(n) ==
    IF n = 0 THEN { << >> }
    ELSE { p \o t : p \in Pieces, t \in TemplatesOf(n - 1) }

Templates == UNION { TemplatesOf(n) : n \in 0..MaxPieces }

FormatNames == { <<"f", "o", "o">>, P_result, P_name, P_filename, << >>, <<"r", "e", "s", "u", "l", "t", "}">> }

FormatFiles == { <<"t", ".", "c", "p", "p">> }

FormatSettings ==
    { [name |-> n, format |-> t, show_output |-> TRUE,
       location |-> [file_name |-> f, line |-> 42, function_name |-> <<"m", "a", "i", "n">>],
       output_stream |-> "cout"] :
      n \in FormatNames, t \in Templates, f \in FormatFiles }

FormatInit ==
    /\ fSettings \in FormatSettings
    /\ fResult = automatic_duration_to_string(BigOfNat(1500))
    /\ fOut = << >>
    /\ fPc = "ready"
    /\ UnitIdle /\ EnvIdle /\ TimerIdle /\ HarnessIdle

FormatOutput ==
    /\ fPc = "ready"
    /\ fOut' = format_output(fResult, fSettings)
    /\ fPc' = "done"
    /\ UNCHANGED <<fSettings, fResult, unitVars, callVars, accessVars, envVars, timerVars, harnessVars>>

FormatNext == FormatOutput

SpecFormat == FormatInit /\ [][FormatNext]_vars



(***************************************************************************)
(* FunctionTimer / Timer: one measurement of one call.                     *)
(***************************************************************************)
MaxN == 3

\* how long a call of the measured callable may take: 750 ns or 2 h 1 min
CallDurations ==
    { BigOfNat(750), Big(FALSE, <<0, 0, 0, 260, 7>>) }

\* by how much a clock that is not steady may have stepped back during a call
BackwardSteps == { BigNeg(BigOfNat(3)) }

\* clock::now() after the call minus clock::now() before it
ClockSteps == IF steady THEN CallDurations ELSE CallDurations \cup BackwardSteps

\* what the measured callable may return
ReturnValues == {"r1", "r2"}

\* the argument a caller supplies: its value, whether the caller passed an
\* lvalue or a temporary, and whether the callable takes its parameter by
\* value or by reference to const
PassedByCopy == [value |-> "a1", category |-> "lvalue", param |-> "by_value"]

ArgChoices ==
    { [value |-> "a1", category |-> c, param |-> q] :
        c \in {"lvalue", "rvalue"}, q \in {"by_value", "by_const_ref"} }

\* std::forward<Args>(args): Args is deduced as T& for an lvalue and as T for
\* a temporary, so the value category the caller used is handed on
forward(a) == a.category

\* what `args` may hold after the call: a parameter taken by value is
\* move-constructed from a forwarded rvalue, which leaves the argument either
\* as it was (a move that copies) or moved from
after_call(a) ==
    IF forward(a) = "rvalue" /\ a.param = "by_value"
    THEN { a, [a EXCEPT !.value = "moved_from"] }
    ELSE { a }

\* the callable's return type, held by the std::any
ResultType == "int"

\* the T of get_result<T>(); "any" stands for the overload without T
RequestTypes == {"any", "int", "double"}

\* how many times a caller reads a timer through one accessor
MaxReads == 2

ShortFormat == P_name \o <<":", " ">> \o P_result

\* std::source_location::current() at the caller's construction of Settings
CallSite == [file_name |-> <<"t", ".", "c", "p", "p">>, line |-> 42, function_name |-> <<"m", "a", "i", "n">>]

TimerSettingsChoices ==
    { [name |-> <<"f", "o", "o">>, format |-> f, show_output |-> so,
       location |-> CallSite, output_stream |-> st] :
      f \in {DefaultFormat, ShortFormat}, so \in BOOLEAN, st \in Streams }

\* the default template to std::cout, or a template of the caller's to a
\* stream of the caller's
HarnessSettingsChoices ==
    { [name |-> s.name, format |-> s.format, show_output |-> s.show_output,
       location |-> s.location, output_stream |-> s.output_stream,
       child_output |-> co] :
      s \in { t \in TimerSettingsChoices :
                 (t.format = DefaultFormat) <=> (t.output_stream = "cout") },
      co \in BOOLEAN }

Event(ev, run, took) == [ev |-> ev, run |-> run, took |-> took]

\* get_elapsed with the two time points exchanged
get_elapsed_rev(start, end) == BigSub(start, end)

\* BaseTimer::get_elapsed
get_elapsed(start, end) == BigSub(end, start)

\* timer_result without the fixed-granularity branch
timer_result_auto(dur, start, end) == automatic_duration_to_string(BigSub(end, start))

\* the string a single timer substitutes for {result}
timer_result(dur, start, end) ==
    IF dur = "automatic_duration"
    THEN automatic_duration_to_string(BigSub(end, start))
    ELSE to_string(duration_cast(dur, BigSub(end, start))) \o <<" ">> \o duration_suffix(dur)

\* the text put in front of what the stream already holds
written_front(out, settings, text) ==
    [out EXCEPT ![settings.output_stream] = text \o <<"\n">> \o @]

\* output_stream << text << std::endl
written(out, settings, text) ==
    [out EXCEPT ![settings.output_stream] = @ \o text \o <<"\n">>]

\* show_result without the test of show_output
show_result_always(out, settings, dur, start, end) ==
    written(out, settings, format_output(timer_result(dur, start, end), settings))

\* BaseTimer::show_result / Timer::~Timer: the streams afterwards
show_result(out, settings, dur, start, end) ==
    IF ~settings.show_output THEN out
    ELSE written(out, settings, format_output(timer_result(dur, start, end), settings))

\* the constructor up to the capture of the start point
TimerStartWith(settings) ==
    /\ tSettings' = settings
    /\ m_start' = clock
    /\ m_end' = Epoch
    /\ fresult' = << >>
    /\ got' = << >>
    /\ tPc' = "started"
    /\ log' = Append(log, Event("start", i, Epoch))
    /\ UNCHANGED <<clock, sink, duration, steady, arg>>

\* FunctionTimer::FunctionTimer / Timer::Timer, entered by a caller
TimerConstruct ==
    /\ hPc = "idle"
    /\ tPc = "none"
    /\ TimerStartWith(arg)
    /\ UNCHANGED <<unitVars, formatVars, callVars, accessVars, harnessVars>>

\* the constructor's call of the callable, which takes d and returns r
TimerInvoke ==
    /\ tPc = "started"
    /\ \E d \in ClockSteps, r \in ReturnValues :
         /\ clock' = BigAdd(clock, d)
         /\ fresult' = <<r>>
         /\ log' = Append(log, Event("invoke", i, d) @@ [value |-> r, received |-> args.value])
    /\ args' \in after_call(args)
    /\ tPc' = "called"
    /\ UNCHANGED <<sink, duration, steady, arg, tSettings, m_start, m_end, got>>
    /\ UNCHANGED <<unitVars, formatVars, accessVars, harnessVars>>

\* the constructor's capture of the end point
TimerEnd ==
    /\ tPc = "called"
    /\ m_end' = clock
    /\ tPc' = "constructed"
    /\ log' = Append(log, Event("end", i, Epoch))
    /\ UNCHANGED <<clock, sink, duration, steady, arg, tSettings, m_start, fresult, got>>
    /\ UNCHANGED <<unitVars, formatVars, callVars, accessVars, harnessVars>>

\* a caller's get_elapsed()
TimerGetElapsed ==
    /\ hPc = "idle"
    /\ tPc = "constructed"
    /\ Len(got) < MaxReads
    /\ got' = Append(got, get_elapsed(m_start, m_end))
    /\ UNCHANGED <<envVars, arg, tPc, tSettings, m_start, m_end, fresult>>
    /\ UNCHANGED <<unitVars, formatVars, callVars, accessVars, harnessVars>>

\* FunctionTimer::~FunctionTimer / Timer::~Timer at the end of the caller's scope
TimerDestroy ==
    /\ hPc = "idle"
    /\ tPc = "constructed"
    /\ sink' = show_result(sink, tSettings, duration, m_start, m_end)
    /\ log' = IF tSettings.show_output THEN Append(log, Event("write", i, Epoch)) ELSE log
    /\ tPc' = "destroyed"
    /\ UNCHANGED <<clock, duration, steady, arg, tSettings, m_start, m_end, fresult, got>>
    /\ UNCHANGED <<unitVars, formatVars, callVars, accessVars, harnessVars>>

\* the callable throws: the exception leaves the noexcept constructor and
\* std::terminate ends the program
TimerThrow ==
    /\ tPc = "started"
    /\ tPc' = "terminated"
    /\ hPc' = IF hPc = "idle" THEN hPc ELSE "terminated"
    /\ log' = Append(log, Event("throw", i, Epoch))
    /\ UNCHANGED <<clock, sink, duration, steady, arg, tSettings, m_start, m_end, fresult, got>>
    /\ UNCHANGED <<hSettings, N, i, timers, fresults, max_time, min_time, median_time, total_time>>
    /\ UNCHANGED <<unitVars, formatVars, callVars, accessVars>>

\* std::any_cast<T>(a) by value: the value held, or std::bad_any_cast thrown
any_cast(T, a) ==
    IF T = ResultType THEN [kind |-> "value", value |-> a[1]]
    ELSE [kind |-> "bad_any_cast"]

\* FunctionTimer::get_result<T>() and get_result(), both noexcept
get_result(T, a) ==
    IF T = "any" THEN [kind |-> "value", value |-> a[1]] ELSE any_cast(T, a)

\* a caller's get_result<T>() or get_result(): an exception that leaves the
\* noexcept accessor ends the program
TimerGetResult ==
    /\ hPc = "idle"
    /\ tPc = "constructed"
    /\ Len(SelectSeq(log, LAMBDA e : e.ev = "get_result")) < MaxReads
    /\ \E T \in RequestTypes :
         /\ res' = get_result(T, fresult)
         /\ tPc' = IF res'.kind = "value" THEN tPc ELSE "terminated"
         /\ log' = Append(log, Event("get_result", i, Epoch) @@ [type |-> T])
    /\ UNCHANGED <<clock, sink, duration, steady, arg, tSettings, m_start, m_end, fresult, got>>
    /\ UNCHANGED <<unitVars, formatVars, callVars, harnessVars>>

TimerInit ==
    /\ clock = BigOfNat(4000)
    /\ sink = [s \in Streams |-> << >>]
    /\ log = << >>
    /\ duration \in DurationKinds
    /\ steady = TRUE
    /\ args = PassedByCopy
    /\ arg \in TimerSettingsChoices
    /\ TimerNone
    /\ UnitIdle /\ FormatIdle /\ HarnessIdle

TimerNext ==
    \/ TimerConstruct
    \/ TimerInvoke
    \/ TimerEnd
    \/ TimerThrow
    \/ TimerGetElapsed
    \/ TimerGetResult
    \/ TimerDestroy

SpecTimer == TimerInit /\ [][TimerNext]_vars

(***************************************************************************)
(* AverageFunctionTimer / AverageTimer: N measurements and their           *)
(* statistics.                                                             *)
(***************************************************************************)
\* get_settings_t without the assignment to show_output
get_settings_t_keep(settings) ==
    [name |-> settings.name, format |-> settings.format,
     show_output |-> settings.show_output,
     location |-> settings.location, output_stream |-> settings.output_stream]

\* get_settings_t building the child settings from the name alone
get_settings_t_fresh(settings) ==
    [name |-> settings.name, format |-> DefaultFormat,
     show_output |-> settings.child_output,
     location |-> settings.location, output_stream |-> "cout"]

\* Settings::get_settings_t
get_settings_t(settings) ==
    [name |-> settings.name, format |-> settings.format,
     show_output |-> settings.child_output,
     location |-> settings.location, output_stream |-> settings.output_stream]

\* std::accumulate(timers.begin(), timers.end(), 0LL)
RECURSIVE accumulate(_)
accumulate(ts) == IF ts = << >> THEN BigOfNat(0) ELSE BigAdd(Head(ts), accumulate(Tail(ts)))

\* the middle element in place of the mean
average_time_middle(ts, n) == ts[n \div 2 + 1]

\* std::accumulate(...) / N: the sum converted to size_t, divided by N
average_time(ts, n) == Big(FALSE, MagDivSmall(to_unsigned(accumulate(ts)).mag, n))

\* get_average_time
get_average_time == average_time(timers, N)

\* the string the harness substitutes for {result}
harness_result(dur, ts, n) ==
    IF dur = "automatic_duration"
    THEN automatic_duration_to_string(to_signed(average_time(ts, n)))
    ELSE to_string(average_time(ts, n)) \o <<" ">> \o duration_suffix(dur)

\* std::max that keeps its first argument
Max_left(a, b) == a

\* std::max, std::min
Max(a, b) == IF BigLt(a, b) THEN b ELSE a

Min(a, b) == IF BigLt(b, a) THEN b ELSE a

\* the median without the division by two
median_of_sum(ts, n) ==
    IF n % 2 = 0
    THEN BigAdd(ts[n \div 2], ts[n \div 2 + 1])
    ELSE ts[n \div 2 + 1]

\* the median as the element at N / 2 whatever the parity of N
median_of_upper(ts, n) == ts[n \div 2 + 1]

\* the median of the sorted timers
median_of(ts, n) ==
    IF n % 2 = 0
    THEN BigDivSmall(BigAdd(ts[n \div 2], ts[n \div 2 + 1]), 2)
    ELSE ts[n \div 2 + 1]

\* the loop's condition, off by one
loop_condition_le == i <= N

\* the loop's condition
loop_condition == i < N

\* the loop body up to the child's start point: the child settings are
\* derived and the child timer is constructed
ChildConstruct ==
    /\ hPc = "loop"
    /\ tPc = "none"
    /\ loop_condition
    /\ TimerStartWith(get_settings_t(hSettings))
    /\ UNCHANGED <<unitVars, formatVars, callVars, accessVars, harnessVars>>

\* the loop body after the child's construction: its elapsed time and result
\* are stored and the running statistics updated
ChildRecord ==
    /\ hPc = "loop"
    /\ tPc = "constructed"
    /\ LET t == get_elapsed(m_start, m_end)
       IN  /\ timers' = Append(timers, t)
           /\ fresults' = Append(fresults, fresult)
           /\ total_time' = BigAdd(total_time, t)
           /\ max_time' = Max(max_time, t)
           /\ min_time' = Min(min_time, t)
    /\ hPc' = "recorded"
    /\ log' = Append(log, Event("record", i, Epoch))
    /\ UNCHANGED <<clock, sink, duration, steady, timerVars, hSettings, N, i, median_time>>
    /\ UNCHANGED <<unitVars, formatVars, callVars, accessVars>>

\* the end of the loop body: the child timer is destroyed and reports
ChildDestroy ==
    /\ hPc = "recorded"
    /\ sink' = show_result(sink, tSettings, duration, m_start, m_end)
    /\ log' = IF tSettings.show_output THEN Append(log, Event("write", i, Epoch)) ELSE log
    /\ tPc' = "none"
    /\ tSettings' = << >>
    /\ m_start' = Epoch
    /\ m_end' = Epoch
    /\ fresult' = << >>
    /\ i' = i + 1
    /\ hPc' = "loop"
    /\ UNCHANGED <<clock, duration, steady, arg, got>>
    /\ UNCHANGED <<hSettings, N, timers, fresults, max_time, min_time, median_time, total_time>>
    /\ UNCHANGED <<unitVars, formatVars, callVars, accessVars>>

\* the median taken without std::sort
HarnessFinish_unsorted ==
    /\ hPc = "loop"
    /\ tPc = "none"
    /\ ~loop_condition
    /\ timers' = timers
    /\ median_time' = median_of(timers', N)
    /\ hPc' = "constructed"
    /\ UNCHANGED <<envVars, timerVars, hSettings, N, i, fresults, max_time, min_time, total_time>>
    /\ UNCHANGED <<unitVars, formatVars, callVars, accessVars>>

\* after the loop: std::sort(timers) and the median
HarnessFinish ==
    /\ hPc = "loop"
    /\ tPc = "none"
    /\ ~loop_condition
    /\ timers' = SortSeq(timers, BigLt)
    /\ median_time' = median_of(timers', N)
    /\ hPc' = "constructed"
    /\ UNCHANGED <<envVars, timerVars, hSettings, N, i, fresults, max_time, min_time, total_time>>
    /\ UNCHANGED <<unitVars, formatVars, callVars, accessVars>>

\* AverageFunctionTimer::~AverageFunctionTimer / AverageTimer::~AverageTimer
HarnessDestroy ==
    /\ hPc = "constructed"
    /\ sink' = IF ~hSettings.show_output THEN sink
               ELSE written(sink, hSettings,
                            format_output(harness_result(duration, timers, N), hSettings))
    /\ log' = IF hSettings.show_output THEN Append(log, Event("report", N, Epoch)) ELSE log
    /\ hPc' = "destroyed"
    /\ UNCHANGED <<clock, duration, steady, timerVars>>
    /\ UNCHANGED <<hSettings, N, i, timers, fresults, max_time, min_time, median_time, total_time>>
    /\ UNCHANGED <<unitVars, formatVars, callVars, accessVars>>

Init ==
    /\ clock = BigOfNat(4000)
    /\ sink = [s \in Streams |-> << >>]
    /\ log = << >>
    /\ duration \in DurationKinds
    /\ steady = TRUE
    /\ args = PassedByCopy
    /\ TimerIdle
    /\ hPc = "loop"
    /\ hSettings \in HarnessSettingsChoices
    /\ N \in 1..MaxN
    /\ i = 0
    /\ timers = << >>
    /\ fresults = << >>
    /\ max_time = INT64_MIN
    /\ min_time = INT64_MAX
    /\ median_time = BigOfNat(0)
    /\ total_time = BigOfNat(0)
    /\ UnitIdle /\ FormatIdle

Next ==
    \/ ChildConstruct
    \/ TimerInvoke
    \/ TimerEnd
    \/ ChildRecord
    \/ ChildDestroy
    \/ HarnessFinish
    \/ HarnessDestroy

Spec == Init /\ [][Next]_vars

(***************************************************************************)
(* The harness read through its accessors, with any clock, and with a      *)
(* callable that may throw.                                                *)
(***************************************************************************)
\* get_max_time
get_max_time == max_time

\* get_min_time
get_min_time == min_time

\* get_median_time
get_median_time == median_time

\* get_total_time
get_total_time == total_time

\* whether the function parameter `index` is a constant expression
is_constant_expression(index) == FALSE

\* get_result(index) without the static_assert
get_result_at_unchecked(rs, index, n) ==
    IF index < Len(rs) THEN [kind |-> "value", value |-> rs[index + 1][1]]
    ELSE [kind |-> "value", value |-> "beyond"]

\* AverageFunctionTimer::get_result(index): static_assert(index < N) is
\* accepted only for a constant expression that is true; otherwise the program
\* that holds the call is rejected by the compiler
get_result_at(rs, index, n) ==
    IF ~(is_constant_expression(index) /\ index < n) THEN [kind |-> "ill_formed"]
    ELSE [kind |-> "value", value |-> rs[index + 1][1]]

\* a caller's get_result(index), for an index inside or just outside the array
HarnessGetResult ==
    /\ hPc = "constructed"
    /\ res = << >>
    /\ \E index \in 0..N :
         res' = get_result_at(fresults, index, N) @@ [index |-> index]
    /\ hPc' = IF res'.kind = "ill_formed" THEN "rejected" ELSE hPc
    /\ UNCHANGED <<envVars, timerVars>>
    /\ UNCHANGED <<hSettings, N, i, timers, fresults, max_time, min_time, median_time, total_time>>
    /\ UNCHANGED <<unitVars, formatVars, callVars>>

\* a harness that reports through the caller's stream
StatsSettingsChoices ==
    { s \in HarnessSettingsChoices :
        s.output_stream = "log" /\ s.show_output /\ ~s.child_output }

StatsInit ==
    /\ clock = BigOfNat(4000)
    /\ sink = [s \in Streams |-> << >>]
    /\ log = << >>
    /\ duration = "automatic_duration"
    /\ steady \in BOOLEAN
    /\ args \in ArgChoices
    /\ TimerIdle
    /\ hPc = "loop"
    /\ hSettings \in StatsSettingsChoices
    /\ N \in 1..MaxN
    /\ i = 0
    /\ timers = << >>
    /\ fresults = << >>
    /\ max_time = INT64_MIN
    /\ min_time = INT64_MAX
    /\ median_time = BigOfNat(0)
    /\ total_time = BigOfNat(0)
    /\ UnitIdle /\ FormatIdle

StatsNext ==
    \/ ChildConstruct
    \/ TimerInvoke
    \/ TimerThrow
    \/ TimerEnd
    \/ ChildRecord
    \/ ChildDestroy
    \/ HarnessFinish
    \/ HarnessGetResult
    \/ HarnessDestroy

SpecStats == StatsInit /\ [][StatsNext]_vars

(***************************************************************************)
(* BlockTimer: a region of code bounded by hand.                           *)
(***************************************************************************)
\* how many operations a caller performs on a BlockTimer it has constructed
MaxOps == 4

BlockDurations == {"automatic_duration", "microseconds"}

BlockSettingsChoices ==
    { t \in TimerSettingsChoices : (t.format = DefaultFormat) <=> (t.output_stream = "cout") }

\* the string BlockTimer::show_result substitutes for {result}
block_result(dur, start, end) ==
    IF dur = "automatic_duration"
    THEN automatic_duration_to_string(BigSub(end, start))
    ELSE to_string(duration_cast(dur, BigSub(end, start))) \o <<" ">> \o duration_suffix(dur)

\* BlockTimer::show_result without std::endl
block_show_result_noendl(out, settings, dur, start, end) ==
    IF ~settings.show_output THEN out
    ELSE [out EXCEPT ![settings.output_stream] =
              @ \o format_output(block_result(dur, start, end), settings)]

\* BlockTimer::show_result: the streams afterwards
block_show_result(out, settings, dur, start, end) ==
    IF ~settings.show_output THEN out
    ELSE written(out, settings, format_output(block_result(dur, start, end), settings))

\* the operations made so far on the constructed BlockTimer
Ops == Len(log) - 1

\* BlockTimer::BlockTimer
BlockConstruct ==
    /\ hPc = "idle"
    /\ tPc = "none"
    /\ tSettings' = arg
    /\ m_start' = clock
    /\ m_end' = Epoch
    /\ tPc' = "running"
    /\ log' = Append(log, Event("start", 0, clock))
    /\ UNCHANGED <<clock, sink, duration, steady, arg, fresult, got>>
    /\ UNCHANGED <<unitVars, formatVars, accessVars, callVars, harnessVars>>

\* the caller's code between two operations: time passes
BlockWork ==
    /\ tPc = "running"
    /\ Ops < MaxOps
    /\ \E d \in ClockSteps :
         /\ clock' = BigAdd(clock, d)
         /\ log' = Append(log, Event("work", 0, d))
    /\ UNCHANGED <<sink, duration, steady, timerVars>>
    /\ UNCHANGED <<unitVars, formatVars, accessVars, callVars, harnessVars>>

\* BlockTimer::end that keeps the first end point
BlockEnd_first ==
    /\ tPc = "running"
    /\ Ops < MaxOps
    /\ m_end' = IF m_end = Epoch THEN clock ELSE m_end
    /\ log' = Append(log, Event("end", 0, clock))
    /\ UNCHANGED <<clock, sink, duration, steady, arg, tPc, tSettings, m_start, fresult, got>>
    /\ UNCHANGED <<unitVars, formatVars, accessVars, callVars, harnessVars>>

\* BlockTimer::end
BlockEnd ==
    /\ tPc = "running"
    /\ Ops < MaxOps
    /\ m_end' = clock
    /\ log' = Append(log, Event("end", 0, clock))
    /\ UNCHANGED <<clock, sink, duration, steady, arg, tPc, tSettings, m_start, fresult, got>>
    /\ UNCHANGED <<unitVars, formatVars, accessVars, callVars, harnessVars>>

\* BlockTimer::show_result, called by the caller
BlockShow ==
    /\ tPc = "running"
    /\ Ops < MaxOps
    /\ sink' = block_show_result(sink, tSettings, duration, m_start, m_end)
    /\ log' = Append(log, Event("show", 0, Epoch))
    /\ UNCHANGED <<clock, duration, steady, timerVars>>
    /\ UNCHANGED <<unitVars, formatVars, accessVars, callVars, harnessVars>>

\* BlockTimer::end_and_show_result
BlockEndAndShow ==
    /\ tPc = "running"
    /\ Ops < MaxOps
    /\ m_end' = clock
    /\ sink' = block_show_result(sink, tSettings, duration, m_start, m_end')
    /\ log' = Append(log, Event("end_and_show", 0, clock))
    /\ UNCHANGED <<clock, duration, steady, arg, tPc, tSettings, m_start, fresult, got>>
    /\ UNCHANGED <<unitVars, formatVars, accessVars, callVars, harnessVars>>

\* BlockTimer::get_elapsed, called by the caller
BlockGetElapsed ==
    /\ tPc = "running"
    /\ Ops < MaxOps
    /\ Len(got) < MaxReads
    /\ got' = Append(got, get_elapsed(m_start, m_end))
    /\ log' = Append(log, Event("get_elapsed", 0, get_elapsed(m_start, m_end)))
    /\ UNCHANGED <<clock, sink, duration, steady, arg, tPc, tSettings, m_start, m_end, fresult>>
    /\ UNCHANGED <<unitVars, formatVars, accessVars, callVars, harnessVars>>

\* a destructor that reports as Timer's does
BlockDestroy_reports ==
    /\ tPc = "running"
    /\ tPc' = "destroyed"
    /\ sink' = block_show_result(sink, tSettings, duration, m_start, m_end)
    /\ UNCHANGED <<clock, log, duration, steady, arg, tSettings, m_start, m_end, fresult, got>>
    /\ UNCHANGED <<unitVars, formatVars, accessVars, callVars, harnessVars>>

\* BlockTimer::~BlockTimer
BlockDestroy ==
    /\ tPc = "running"
    /\ tPc' = "destroyed"
    /\ UNCHANGED <<envVars, arg, tSettings, m_start, m_end, fresult, got>>
    /\ UNCHANGED <<unitVars, formatVars, accessVars, callVars, harnessVars>>

BlockInit ==
    /\ clock = BigOfNat(4000)
    /\ sink = [s \in Streams |-> << >>]
    /\ log = << >>
    /\ duration \in BlockDurations
    /\ steady = TRUE
    /\ args = << >>
    /\ arg \in BlockSettingsChoices
    /\ TimerNone
    /\ UnitIdle /\ FormatIdle /\ HarnessIdle

BlockNext ==
    \/ BlockConstruct
    \/ BlockWork
    \/ BlockEnd
    \/ BlockShow
    \/ BlockEndAndShow
    \/ BlockGetElapsed
    \/ BlockDestroy

SpecBlock == BlockInit /\ [][BlockNext]_vars

(***************************************************************************)
(* Claims about the pure functions.                                        *)
(***************************************************************************)
\* the text after the blank of a rendered duration
UnitOf(str) == SubSeq(str, find(str, <<" ">>, 0) + 2, Len(str))

InRange(e, lo, hi) == BigLe(lo, e) /\ BigLt(e, hi)

\* C1: automatic_duration_to_string picks the unit by the threshold table:
\* ns below 1000, us in [10^3, 10^6), ms in [10^6, 10^9), s in
\* [10^9, 6*10^10), m in [6*10^10, 3.6*10^12), h from 3.6*10^12 on; a value
\* on a threshold takes the larger unit, every negative value takes ns, and
\* every int64_t input yields one of the six units.
C1_UnitByThresholds ==
    uPc = "done" =>
        LET e  == uElapsed
            u  == UnitOf(uOut)
            t3 == Big(FALSE, <<0, 1>>)
            t6 == Big(FALSE, <<0, 0, 1>>)
            t9 == Big(FALSE, <<0, 0, 0, 1>>)
            tm == Big(FALSE, <<0, 0, 0, 60>>)
            th == Big(FALSE, <<0, 0, 0, 600, 3>>)
        IN  /\ (u = <<"n", "s">>) <=> BigLt(e, t3)
            /\ (u = <<"u", "s">>) <=> InRange(e, t3, t6)
            /\ (u = <<"m", "s">>) <=> InRange(e, t6, t9)
            /\ (u = <<"s">>) <=> InRange(e, t9, tm)
            /\ (u = <<"m">>) <=> InRange(e, tm, th)
            /\ (u = <<"h">>) <=> BigLe(th, e)
            /\ e.neg => u = <<"n", "s">>
            /\ u \in { duration_suffix(d) : d \in FixedDurations }

\* a value exactly on the minutes threshold was rendered in minutes
C1_Witness ==
    /\ uPc = "done"
    /\ uElapsed = Big(FALSE, <<0, 0, 0, 60>>)
    /\ UnitOf(uOut) = <<"m">>

\* the placeholder that starts at position at (1-based) of t, as its call, or << >>
PlaceholderAt(t, at, calls) ==
    LET hit == { k \in 1..Len(calls) :
                   /\ at + Len(calls[k][1]) - 1 <= Len(t)
                   /\ SubSeq(t, at, at + Len(calls[k][1]) - 1) = calls[k][1] }
    IN  IF hit = { } THEN << >> ELSE calls[CHOOSE k \in hit : TRUE]

\* the template with each recognised placeholder replaced by its value in one
\* left-to-right reading, everything else copied
RECURSIVE Substituted(_, _, _)
Substituted(t, at, calls) ==
    IF at > Len(t) THEN << >>
    ELSE LET c == PlaceholderAt(t, at, calls)
         IN  IF c = << >> THEN <<t[at]>> \o Substituted(t, at + 1, calls)
             ELSE c[2] \o Substituted(t, at + Len(c[1]), calls)

Contains(str, what) == find(str, what, 0) # npos

\* C2: format_output returns the template with every occurrence of the five
\* placeholders replaced by its value and all other text, unknown tokens
\* included, unchanged and in place.
C2_EveryPlaceholderReplaced ==
    fPc = "done" =>
        fOut = Substituted(fSettings.format, 1, replace_calls(fResult, fSettings))

\* C3: text inserted as the value of a placeholder is never scanned again: a
\* value that a call of replace inserted stands verbatim in the output.
C3_ValuesNotRescanned ==
    fPc = "done" =>
        \A k \in 1..5 :
            LET call == replace_calls(fResult, fSettings)[k]
            IN  Contains(format_pass(fResult, fSettings, k - 1), call[1])
                    => Contains(fOut, call[2])


(***************************************************************************)
(* Claims about the harness.                                               *)
(***************************************************************************)
CountOf(str, c) == Cardinality({ k \in 1..Len(str) : str[k] = c })

EndsWith(str, tail) ==
    /\ Len(tail) <= Len(str)
    /\ SubSeq(str, Len(str) - Len(tail) + 1, Len(str)) = tail

IsRunEvent(e) == e.ev \in {"start", "invoke", "end"}

IsWrite(e) == e.ev = "write"

IsReport(e) == e.ev = "report"

HarnessBuilt == hPc \in {"constructed", "destroyed"}

\* C4: the harness calls the callable exactly N times, one run after the
\* other in index order: the starts, calls and ends of the runs happen as
\* start 0, call 0, end 0, start 1, ... with no run skipped, repeated or
\* overlapping another, and construction completes after exactly N of them.
C4_RunsSequential ==
    LET runs == SelectSeq(log, IsRunEvent)
    IN  /\ \A k \in 1..Len(runs) :
              /\ runs[k].ev = <<"start", "invoke", "end">>[((k - 1) % 3) + 1]
              /\ runs[k].run = (k - 1) \div 3
        /\ Len(runs) <= 3 * N
        /\ HarnessBuilt => Len(runs) = 3 * N

\* a harness of at least two runs has completed its construction
C4_Witness == hPc = "constructed" /\ N >= 2 /\ Len(timers) = N

\* C5: the harness writes N child lines when child_output is set and none
\* otherwise, and one aggregate line at its disposal when show_output is set
\* and none otherwise, whatever the other flag is; all of them on the
\* configured stream.
C5_LinesByFlags ==
    LET children == Len(SelectSeq(log, IsWrite))
        reports  == Len(SelectSeq(log, IsReport))
    IN  /\ HarnessBuilt => children = (IF hSettings.child_output THEN N ELSE 0)
        /\ reports = (IF hPc = "destroyed" /\ hSettings.show_output THEN 1 ELSE 0)
        /\ CountOf(sink[hSettings.output_stream], "\n") = children + reports
        /\ \A st \in Streams \ {hSettings.output_stream} : sink[st] = << >>

\* show_output without child_output: one line in all
C5_Witness ==
    /\ hPc = "destroyed"
    /\ N >= 2
    /\ hSettings.show_output /\ ~hSettings.child_output
    /\ CountOf(sink[hSettings.output_stream], "\n") = 1

\* the rendering the harness gives a nanosecond count v
RenderedMean(v) ==
    IF duration = "automatic_duration" THEN automatic_duration_to_string(v)
    ELSE to_string(v) \o <<" ">> \o duration_suffix(duration)

C7_MeanInGranularity ==
    (hPc = "destroyed" /\ hSettings.show_output /\ duration \in FixedDurations) =>
        EndsWith(sink[hSettings.output_stream],
                 format_output(to_string(duration_cast(duration, BigDivSmall(total_time, N)))
                               \o <<" ">> \o duration_suffix(duration), hSettings)
                 \o <<"\n">>)

\* C10: while a child timer exists its settings are the aggregate's in name,
\* format, call site and stream, with show_output set to the aggregate's
\* child_output; and no step changes the aggregate's own settings.
C10_ChildSettings ==
    /\ [](tPc # "none" =>
            /\ tSettings.name = hSettings.name
            /\ tSettings.format = hSettings.format
            /\ tSettings.location = hSettings.location
            /\ tSettings.output_stream = hSettings.output_stream
            /\ tSettings.show_output = hSettings.child_output
            /\ DOMAIN tSettings = DOMAIN hSettings \ {"child_output"})
    /\ [][hSettings' = hSettings]_vars

\* a child of an aggregate whose two flags differ and whose template and
\* stream are not the defaults
C10_Witness ==
    /\ tPc = "constructed"
    /\ hSettings.show_output # hSettings.child_output
    /\ hSettings.format = ShortFormat
    /\ hSettings.output_stream = "log"

\* C27: format_output ends for every template and every set of values, a
\* value that holds its own placeholder or is empty included: each of the
\* five passes is one left-to-right reading of its input in which every
\* occurrence is replaced and the text it inserts is not read again.
C27_EachPassReadsOnce ==
    fPc = "done" =>
        /\ fOut = format_pass(fResult, fSettings, 5)
        /\ \A k \in 1..5 :
              format_pass(fResult, fSettings, k) =
                  Substituted(format_pass(fResult, fSettings, k - 1), 1,
                              <<replace_calls(fResult, fSettings)[k]>>)

\* a name that is its own placeholder was substituted and stands in the output
C27_Witness ==
    /\ fPc = "done"
    /\ fSettings.name = P_name
    /\ Contains(fSettings.format, P_name)
    /\ Contains(fOut, P_name)


(***************************************************************************)
(* Claims about the statistics of the harness.                             *)
(***************************************************************************)
\* the calls of the callable that returned, in run order
RunsOf == SelectSeq(log, LAMBDA e : e.ev = "invoke")

\* the elapsed time of each run, in run order
Samples == [k \in 1..Len(RunsOf) |-> RunsOf[k].took]

\* the samples in ascending order
Sorted == SortSeq(Samples, BigLt)

RECURSIVE SumOf(_)
SumOf(ts) == IF ts = << >> THEN BigOfNat(0) ELSE BigAdd(Head(ts), SumOf(Tail(ts)))

\* q is a / n truncated toward zero
IsTruncatedQuotient(q, a, n) ==
    LET r == BigSub(a, BigMulSmall(q, n))
    IN  /\ BigLt(BigNeg(BigOfNat(n)), r) /\ BigLt(r, BigOfNat(n))
        /\ r = BigOfNat(0) \/ (r.neg <=> a.neg)

\* C11: once the harness is constructed the minimum is at most the median and
\* the median at most the maximum, for odd and for even N.
C11_MedianBetween ==
    HarnessBuilt =>
        /\ BigLe(get_min_time, get_median_time)
        /\ BigLe(get_median_time, get_max_time)

\* an even number of runs whose median lies strictly between the extremes
C11_Witness ==
    /\ hPc = "constructed"
    /\ N % 2 = 0
    /\ BigLt(get_min_time, get_median_time)
    /\ BigLt(get_median_time, get_max_time)

\* C12: once the harness is constructed every recorded elapsed value lies
\* between the minimum and the maximum, and both are recorded values.
C12_ExtremesAreSamples ==
    HarnessBuilt =>
        /\ Len(Samples) = N
        /\ \A k \in 1..N :
              BigLe(get_min_time, Samples[k]) /\ BigLe(Samples[k], get_max_time)
        /\ \E k \in 1..N : Samples[k] = get_min_time
        /\ \E k \in 1..N : Samples[k] = get_max_time

\* three runs, one of them strictly between the other two
C12_Witness ==
    /\ hPc = "constructed"
    /\ \E k \in 1..Len(Samples) :
          BigLt(get_min_time, Samples[k]) /\ BigLt(Samples[k], get_max_time)

\* C13: the total is the exact sum of the N samples, and get_average_time()
\* is that total divided by N, truncated toward zero as signed division does.
C13_TotalAndMean ==
    HarnessBuilt =>
        /\ get_total_time = SumOf(Samples)
        /\ IsTruncatedQuotient(get_average_time, get_total_time, N)

\* C14: the median is the middle element of the sorted samples for odd N, and
\* the average of the two central elements, truncated toward zero, for even N.
C14_MedianOfSorted ==
    HarnessBuilt =>
        IF N % 2 = 1 THEN get_median_time = Sorted[N \div 2 + 1]
        ELSE IsTruncatedQuotient(get_median_time,
                                 BigAdd(Sorted[N \div 2], Sorted[N \div 2 + 1]), 2)

\* an even number of runs whose two central samples have an odd sum
C14_Witness ==
    /\ hPc = "constructed"
    /\ N % 2 = 0
    /\ BigMulSmall(get_median_time, 2) # BigAdd(Sorted[N \div 2], Sorted[N \div 2 + 1])

\* C15: minimum, maximum, median, mean and total are functions of the sorted
\* samples alone, so that run sequences that are permutations of each other
\* have the same statistics.
C15_OrderIndependent ==
    HarnessBuilt =>
        /\ get_min_time = Sorted[1]
        /\ get_max_time = Sorted[N]
        /\ get_total_time = SumOf(Sorted)
        /\ get_median_time = median_of(Sorted, N)
        /\ get_average_time = average_time(Sorted, N)

\* three runs that did not come in ascending order and whose middle run is
\* not the median
C15_Witness ==
    /\ hPc = "constructed"
    /\ N = 3
    /\ Samples # Sorted
    /\ Samples[2] # Sorted[2]

\* C16: get_result(i) for i < N returns the value the callable returned in
\* run i.
C16_ResultInRunOrder ==
    (res # << >> /\ hPc # "idle" /\ res.index < N) =>
        /\ res.kind = "value"
        /\ res.value = RunsOf[res.index + 1].value

\* C17: a request for the result at an index i >= N returns no value and reads
\* nothing: it is rejected where it is made, and making it changes nothing of
\* the harness.
C17_OutOfRangeRejected ==
    /\ []((res # << >> /\ hPc # "idle" /\ res.index >= N) =>
             res.kind = "ill_formed" /\ hPc = "rejected")
    /\ [][res' # res =>
             UNCHANGED <<sink, timers, fresults, max_time, min_time, median_time, total_time>>]_vars

\* the result one past the last was requested of a harness of two runs
C17_Witness ==
    /\ hPc = "rejected"
    /\ N = 2
    /\ res # << >>
    /\ res.index = N

\* C18: when the callable throws in run k the exception reaches the caller of
\* the harness's constructor, no later run starts and nothing is reported.
C18_FailureReachesCaller ==
    \A k \in 1..Len(log) :
        log[k].ev = "throw" =>
            /\ hPc = "failed"
            /\ \A j \in (k + 1)..Len(log) : log[j].ev \notin {"start", "invoke", "report"}


\* C23: after construction the stored elapsed values are in run order, entry
\* k being the elapsed time of run k, next to the result of the same run.
C23_TimersInRunOrder ==
    HarnessBuilt =>
        \A k \in 1..N :
            /\ timers[k] = RunsOf[k].took
            /\ fresults[k] = <<RunsOf[k].value>>

\* the lines of the children of the first n runs, one after the other
RECURSIVE ChildLines(_)
ChildLines(n) ==
    IF n = 0 THEN << >>
    ELSE ChildLines(n - 1)
         \o format_output(timer_result(duration, Epoch, Samples[n]), get_settings_t(hSettings))
         \o <<"\n">>

\* C24: with child_output and show_output set, the report of the child of
\* run k is written after run k ended and before the callable of run k + 1
\* starts, the children's lines stand in the stream in run order, and the
\* aggregate line is written last, at the disposal of the harness.
C24_ReportsInRunOrder ==
    (hSettings.child_output /\ hSettings.show_output) =>
        LET writes == Len(SelectSeq(log, IsWrite))
        IN  /\ \A k \in 1..Len(log) :
                  log[k].ev = "write" =>
                      /\ \E j \in 1..(k - 1) : log[j].ev = "end" /\ log[j].run = log[k].run
                      /\ \A j \in 1..(k - 1) :
                            /\ log[j].ev = "invoke" => log[j].run <= log[k].run
                            /\ log[j].ev = "write" => log[j].run < log[k].run
            /\ \A k \in 1..Len(log) :
                  (log[k].ev = "invoke" /\ log[k].run > 0) =>
                      \E j \in 1..(k - 1) : log[j].ev = "write" /\ log[j].run = log[k].run - 1
            /\ \A k \in 1..Len(log) :
                  log[k].ev = "report" => k = Len(log) /\ writes = N /\ hPc = "destroyed"
            /\ sink[hSettings.output_stream] =
                   ChildLines(writes)
                   \o (IF hPc = "destroyed"
                       THEN format_output(harness_result(duration, timers, N), hSettings) \o <<"\n">>
                       ELSE << >>)

\* both kinds of report were written for runs of different lengths
C24_Witness ==
    /\ hPc = "destroyed"
    /\ hSettings.child_output /\ hSettings.show_output
    /\ N >= 2
    /\ Samples[1] # Samples[2]
    /\ CountOf(sink[hSettings.output_stream], "\n") = N + 1


\* C25: every run calls the callable with the argument value the caller
\* supplied to the harness, also when the caller passed a temporary.
C25_SameArgumentsEachRun ==
    \A k \in 1..Len(RunsOf) : RunsOf[k].received = "a1"


(***************************************************************************)
(* Claims about the BlockTimer.                                            *)
(***************************************************************************)
IsEnd(e) == e.ev \in {"end", "end_and_show"}

IsShow(e) == e.ev \in {"show", "end_and_show"}

\* the end point in force after the first k operations: that of the last
\* end() among them, or the default time point
RECURSIVE EndAfter(_)
EndAfter(k) ==
    IF k <= 1 THEN Epoch
    ELSE IF IsEnd(log[k]) THEN log[k].took
    ELSE EndAfter(k - 1)

\* the elapsed time in force after the first k operations
ElapsedAfter(k) == BigSub(EndAfter(k), log[1].took)

\* how a nanosecond count is rendered in the timer's granularity
RenderedElapsed(e) ==
    IF duration = "automatic_duration" THEN automatic_duration_to_string(e)
    ELSE to_string(duration_cast(duration, e)) \o <<" ">> \o duration_suffix(duration)

\* the lines of the reports asked for among the first k operations
RECURSIVE BlockLines(_)
BlockLines(k) ==
    IF k <= 1 THEN << >>
    ELSE BlockLines(k - 1)
         \o (IF IsShow(log[k]) /\ tSettings.show_output
             THEN format_output(RenderedElapsed(ElapsedAfter(k)), tSettings) \o <<"\n">>
             ELSE << >>)

\* the step is the operation named by the event it appends
Did(kinds) == Len(log') = Len(log) + 1 /\ log'[Len(log')].ev \in kinds

\* C21: show_result() of a BlockTimer writes what the destructor of a
\* callable-bound timer with the same settings, start and end points writes,
\* and end_and_show_result() does what end() followed by show_result() does.
C21_EmitAsScopedTimer ==
    /\ [][(tPc = "running" /\ Did({"show"})) =>
             sink' = show_result(sink, tSettings, duration, m_start, m_end)]_vars
    /\ [][(tPc = "running" /\ Did({"end_and_show"})) =>
             /\ m_end' = clock
             /\ sink' = show_result(sink, tSettings, duration, m_start, clock)
             /\ UNCHANGED <<m_start, tSettings, got, clock>>]_vars

\* a report was asked for right after end() and written
C21_Witness ==
    /\ tPc = "running"
    /\ tSettings.show_output
    /\ \E k \in 2..(Len(log) - 1) : log[k].ev = "end" /\ log[k + 1].ev = "show"
    /\ sink[tSettings.output_stream] # << >>

\* C22: the elapsed time a BlockTimer reports and returns runs from the start
\* point taken at construction to the end point of the most recent end(), or
\* to the default time point when end() was never called.
C22_LastEndWins ==
    tPc \in {"running", "destroyed"} =>
        /\ m_start = log[1].took
        /\ m_end = EndAfter(Len(log))
        /\ \A k \in 2..Len(log) :
              log[k].ev = "get_elapsed" => log[k].took = ElapsedAfter(k)
        /\ sink[tSettings.output_stream] = BlockLines(Len(log))

\* end() was called twice at different times and the elapsed time read after
C22_Witness ==
    /\ tPc = "running"
    /\ \E j, k \in 2..Len(log) :
          /\ j < k
          /\ log[j].ev = "end" /\ log[k].ev = "end"
          /\ log[j].took # log[k].took
          /\ log[Len(log)].ev = "get_elapsed"
          /\ k < Len(log)

\* C26: a BlockTimer writes only in show_result() and end_and_show_result():
\* the lines written number the calls of the two made while show_output is
\* set, and construction, end() and disposal write nothing.
C26_OneLinePerEmit ==
    /\ [](tPc \in {"running", "destroyed"} =>
            /\ CountOf(sink[tSettings.output_stream], "\n") =
                   (IF tSettings.show_output THEN Len(SelectSeq(log, IsShow)) ELSE 0)
            /\ \A st \in Streams \ {tSettings.output_stream} : sink[st] = << >>)
    /\ [][~Did({"show", "end_and_show"}) => sink' = sink]_vars

\* three reports were written and the timer disposed of
C26_Witness ==
    /\ tPc = "destroyed"
    /\ tSettings.show_output
    /\ Len(SelectSeq(log, IsShow)) = 3
    /\ CountOf(sink[tSettings.output_stream], "\n") = 3


(***************************************************************************)
(* Claims about the single timer.                                          *)
(***************************************************************************)
\* how long the measured call took
Took == SelectSeq(log, LAMBDA e : e.ev = "invoke")[1].took

\* the period of a fixed granularity: f * 1000^k nanoseconds, as <<f, k>>
PeriodOf(dur) ==
    CASE dur = "nanoseconds" -> <<1, 0>>
      [] dur = "microseconds" -> <<1, 1>>
      [] dur = "milliseconds" -> <<1, 2>>
      [] dur = "seconds" -> <<1, 3>>
      [] dur = "minutes" -> <<60, 3>>
      [] dur = "hours" -> <<3600, 3>>

SuffixOf(dur) ==
    CASE dur = "nanoseconds" -> <<"n", "s">>
      [] dur = "microseconds" -> <<"u", "s">>
      [] dur = "milliseconds" -> <<"m", "s">>
      [] dur = "seconds" -> <<"s">>
      [] dur = "minutes" -> <<"m">>
      [] dur = "hours" -> <<"h">>

\* c periods of dur, in nanoseconds
Periods(c, dur) == Big(FALSE, MagMulSmall(MagShl(c.mag, PeriodOf(dur)[2]), PeriodOf(dur)[1]))

\* C8: a timer of a fixed granularity reports the whole number of periods
\* that fit in the elapsed time, followed by the suffix of that granularity,
\* whatever the magnitude of the elapsed time.
C8_FixedGranularity ==
    (tPc = "destroyed" /\ arg.show_output /\ duration \in FixedDurations) =>
        \E c \in { duration_cast(duration, Took) } :
            /\ BigLe(Periods(c, duration), Took)
            /\ BigLt(Took, Periods(BigAdd(c, BigOfNat(1)), duration))
            /\ sink[arg.output_stream] =
                   format_output(to_string(c) \o <<" ">> \o SuffixOf(duration), arg)
                   \o <<"\n">>

\* a timer in hours measured 750 ns and reported zero hours
C8_Witness ==
    /\ tPc = "destroyed"
    /\ arg.show_output
    /\ duration = "hours"
    /\ Took = BigOfNat(750)
    /\ sink[arg.output_stream] # << >>

\* C9: a timer writes nothing before its disposal; at disposal it writes one
\* line, ended by a newline, if show_output is set and nothing otherwise; and
\* get_elapsed() returns the time the call took in either case.
C9_WritesOnlyAtDisposal ==
    /\ tPc # "destroyed" => \A st \in Streams : sink[st] = << >>
    /\ tPc = "destroyed" =>
           /\ \A st \in Streams \ {arg.output_stream} : sink[st] = << >>
           /\ ~arg.show_output => sink[arg.output_stream] = << >>
           /\ arg.show_output =>
                  /\ sink[arg.output_stream] =
                         format_output(timer_result(duration, m_start, m_end), arg) \o <<"\n">>
                  /\ CountOf(sink[arg.output_stream], "\n") = 1
    /\ got # << >> => got[1] = Took

\* a silent timer was read and disposed of
C9_Witness ==
    /\ tPc = "destroyed"
    /\ ~arg.show_output
    /\ got = <<Took>>


\* C19: a request for the result as a type other than the stored one is
\* reported to the caller as an error: the program goes on, and the stored
\* result is what the callable returned.
C19_MismatchReported ==
    \A k \in 1..Len(log) :
        (log[k].ev = "get_result" /\ log[k].type \notin {"any", ResultType}) =>
            /\ tPc # "terminated"
            /\ fresult = <<RunsOf[1].value>>

\* C20: the start point is taken before the call and the end point after it,
\* get_elapsed() returns end - start, which is the time the call took and is
\* not negative with a steady clock, and every call of it returns that value.
C20_ElapsedIsEndMinusStart ==
    LET steps == SelectSeq(log, IsRunEvent)
    IN  /\ \A k \in 1..Len(steps) : steps[k].ev = <<"start", "invoke", "end">>[k]
        /\ tPc \in {"constructed", "destroyed"} => BigSub(m_end, m_start) = Took
        /\ \A k \in 1..Len(got) :
              /\ got[k] = Took
              /\ steady => ~got[k].neg

\* get_elapsed() was called twice on a timer whose call took 2 h 1 min
C20_Witness ==
    /\ Len(got) = 2
    /\ got[1] = got[2]
    /\ got[1] = Big(FALSE, <<0, 0, 0, 260, 7>>)

====
